---- MODULE Spec2Model ----
(***************************************************************************)
(* Model of IntegrateFtrackInstance                                        *)
(* (client/ayon_ftrack/plugins/publish/integrate_ftrack_instances.py):     *)
(* the assembly of instance.data["ftrackComponentsList"] by process() and  *)
(* the metadata helpers it calls.                                          *)
(*                                                                         *)
(* Encoding of Python values:                                              *)
(*   - an optional string is the string itself or None;                    *)
(*   - an optional number is <<>> (None / key absent) or <<n>>;            *)
(*   - a string that the code concatenates (asset name, component name)    *)
(*     is a sequence of tokens, concatenation is \o;                       *)
(*   - a file path is <<stem, extension, directory>>, the unresolved     *)
(*     path is <<>>;                                                       *)
(*   - a dict that the code fills key by key is a sequence of              *)
(*     <<key, value>> pairs in insertion order;                            *)
(*   - objects that the code shares by reference (component items) live   *)
(*     in `heap`; a reference is an index into it.                         *)
(***************************************************************************)
EXTENDS Integers, Sequences, FiniteSets, TLC

VARIABLES
    instance,               \* instance.data (input of process)
    settings,               \* plugin attributes set from settings
    pc,                     \* position of process() in its body
    heap,                   \* component item objects, by reference
    review_representations,
    thumbnail_representations,
    other_representations,
    has_movie_review,
    multiple_synced_thumbnails,
    multiple_reviewable,
    component_list,         \* references, in append order
    thumbnail_data_items,   \* thumbnail bindings
    thumbnail_item,         \* reference of the last thumbnail item, 0 = None
    extended_asset_name,    \* None (<<>>) or the last extended name
    index,                  \* loop counter of the loop pc is in
    ftrackComponentsList,   \* instance.data["ftrackComponentsList"]
    raised,                 \* exception that left process(), None if none
    emitted,                \* history: what each component_list entry is
    matched,                \* history: binding chosen for each review
    call                    \* last metadata helper call and its result

vars == <<instance, settings, pc, heap, review_representations,
          thumbnail_representations, other_representations,
          has_movie_review, multiple_synced_thumbnails, multiple_reviewable,
          component_list, thumbnail_data_items, thumbnail_item,
          extended_asset_name, index, ftrackComponentsList, raised, emitted, matched, call>>

----------------------------------------------------------------------------
(* Bounds of the model *)

\* largest number of representations of an instance
MaxRepres == 4

----------------------------------------------------------------------------
(* Python values *)

None == "None"

NoneNum == <<>>

\* Python truthiness of an optional number
Truthy(o) == o # <<>> /\ o[1] # 0

NoPath == <<>>

Range(s) == {s[i] : i \in 1..Len(s)}

\* [x for x in s if x in K], K the set of the values to keep
SelectIn(s, K) ==
    LET F[i \in 0..Len(s)] ==
            IF i = 0 THEN <<>>
            ELSE IF s[i] \in K THEN Append(F[i - 1], s[i]) ELSE F[i - 1]
    IN  F[Len(s)]

\* d[k] = v of a Python dict kept as a sequence of <<key, value>> pairs
DictSet(d, k, v) ==
    IF \E i \in 1..Len(d) : d[i][1] = k
    THEN [i \in 1..Len(d) |-> IF d[i][1] = k THEN <<k, v>> ELSE d[i]]
    ELSE Append(d, <<k, v>>)

DictHas(d, k) == \E i \in 1..Len(d) : d[i][1] = k

DictGet(d, k) == d[CHOOSE i \in 1..Len(d) : d[i][1] = k][2]

\* json.dumps of a dict: the members in insertion order
JsonDumps(d) == [kind |-> "json", members |-> d]

----------------------------------------------------------------------------
(* Extension tables of ayon_core.lib.transcoding *)

VIDEO_EXTENSIONS == {".mp4", ".mov", ".avi"}

IMAGE_EXTENSIONS == {".jpg", ".png", ".exr"}

\* ".{}".format(repre["ext"])
DotExt(ext) ==
    CASE ext = "mp4" -> ".mp4"
      [] ext = "mov" -> ".mov"
      [] ext = "avi" -> ".avi"
      [] ext = "jpg" -> ".jpg"
      [] ext = "png" -> ".png"
      [] ext = "exr" -> ".exr"
      [] OTHER -> ".other"

IsRepreVideo(repre) == DotExt(repre.ext) \in VIDEO_EXTENSIONS

IsRepreImage(repre) == DotExt(repre.ext) \in IMAGE_EXTENSIONS

\* Variant: the staging path is preferred to the published path
GetPublishReprePathStagingFirst(repre, only_published) ==
    IF only_published THEN repre.published_path
    ELSE IF repre.staging_path # NoPath THEN repre.staging_path
    ELSE repre.published_path

\* get_publish_repre_path(instance, repre, only_published)
GetPublishReprePath(repre, only_published) ==
    IF repre.published_path # NoPath THEN repre.published_path
    ELSE IF only_published THEN NoPath
    ELSE repre.staging_path

\* get_ffprobe_streams(path); a failed probe raises and leaves streams = []
GetFfprobeStreams(repre, component_path) ==
    IF repre.probe_fails THEN <<>> ELSE repre.streams

\* convert_ffprobe_fps_to_float(rate): <<fps>>, or <<>> for ValueError
ConvertFfprobeFpsToFloat(rate) ==
    CASE rate = "25/1" -> <<25>>
      [] rate = "24/1" -> <<24>>
      [] rate = "0/0"  -> <<0>>
      [] OTHER -> <<>>

----------------------------------------------------------------------------
(* Metadata helpers *)

\* IntegrateFtrackInstance.metadata_keys_to_label
MetadataKeysToLabel(key) ==
    CASE key = "ayon_ftrack_version"   -> "AYON ftrack version"
      [] key = "ayon_launcher_version" -> "AYON launcher version"
      [] key = "frame_start"           -> "Frame start"
      [] key = "frame_end"             -> "Frame end"
      [] key = "duration"              -> "Duration"
      [] key = "width"                 -> "Resolution width"
      [] key = "height"                -> "Resolution height"
      [] key = "fps"                   -> "FPS"
      [] key = "codec"                 -> "Codec"

\* a or b, on optional numbers
PyOr(a, b) == IF Truthy(a) THEN a ELSE b

\* The version labels put first into the metadata of a video component
VersionMetadata(cfg) ==
    LET m1 == IF "ayon_ftrack_version" \in cfg.additional_metadata_keys
              THEN DictSet(<<>>, MetadataKeysToLabel("ayon_ftrack_version"),
                           "__version__")
              ELSE <<>>
    IN  IF "ayon_launcher_version" \in cfg.additional_metadata_keys
        THEN DictSet(m1, MetadataKeysToLabel("ayon_launcher_version"),
                     "launcher_version")
        ELSE m1

\* codec label of one video stream
CodecLabel(stream) ==
    LET base == IF stream.codec_long_name # <<>>
                THEN stream.codec_long_name ELSE stream.codec
    IN  IF base # <<>> /\ stream.pix_fmt # None
        THEN base \o <<" (", stream.pix_fmt, ")">>
        ELSE base

\* The loop over video_streams: the values it leaves when it ends
ScanVideoStreams(video_streams) ==
    LET start == [stream_width |-> NoneNum, stream_height |-> NoneNum,
                  stream_fps |-> NoneNum, frame_out |-> NoneNum,
                  codec_label |-> <<>>, broke |-> FALSE]
        Step(acc, vs) ==
            LET sized == Truthy(vs.width) /\ Truthy(vs.height)
                acc1 == [acc EXCEPT
                            !.codec_label = CodecLabel(vs),
                            !.stream_width =
                                IF sized THEN vs.width ELSE @,
                            !.stream_height =
                                IF sized THEN vs.height ELSE @]
                converted == ConvertFfprobeFpsToFloat(vs.r_frame_rate)
            IN  IF vs.r_frame_rate = None \/ vs.duration = NoneNum
                THEN acc1
                ELSE IF converted = <<>>
                THEN acc1
                ELSE [acc1 EXCEPT
                        !.stream_fps = converted,
                        !.stream_width = vs.width,
                        !.stream_height = vs.height,
                        !.frame_out = <<vs.duration[1] * converted[1]>>,
                        !.broke = TRUE]
        F[i \in 0..Len(video_streams)] ==
            IF i = 0 THEN start
            ELSE IF F[i - 1].broke THEN F[i - 1]
            ELSE Step(F[i - 1], video_streams[i])
    IN  F[Len(video_streams)]

\* metadata[label] = value for each allowed key with a truthy value
LabelledMetadata(cfg, metadata, pairs) ==
    LET F[i \in 0..Len(pairs)] ==
            IF i = 0 THEN metadata
            ELSE LET key == pairs[i][1]
                     value == pairs[i][2]
                 IN  IF value = <<>> \/ (key # "codec" /\ value[1] = 0)
                        \/ key \notin cfg.additional_metadata_keys
                     THEN F[i - 1]
                     ELSE DictSet(F[i - 1], MetadataKeysToLabel(key),
                                  IF key = "codec" THEN value ELSE value[1])
    IN  F[Len(pairs)]

\* ftr_meta of a component that is not a review
NonReviewFtrMeta(fps, stream_width, stream_height) ==
    LET m1 == IF Truthy(fps) THEN DictSet(<<>>, "frameRate", fps[1])
              ELSE <<>>
    IN  IF Truthy(stream_width) /\ Truthy(stream_height)
        THEN DictSet(DictSet(m1, "width", stream_width[1]),
                     "height", stream_height[1])
        ELSE m1

\* Variant: frameOut is always the duration in frames
ReviewFtrMetaOfDuration(fps, frame_out, duration) ==
    <<<<"frameIn", 0>>, <<"frameOut", duration>>, <<"frameRate", fps[1]>>>>

\* ftr_meta of a review component
ReviewFtrMeta(fps, frame_out, duration) ==
    LET out == IF Truthy(frame_out) THEN frame_out[1] ELSE duration
    IN  <<<<"frameIn", 0>>, <<"frameOut", out>>, <<"frameRate", fps[1]>>>>

\* Variant: the early return is missing
NeverSkipsWithoutVideoStream(video_streams, extension) == FALSE

\* the early return of _prepare_video_component_metadata
SkipsWithoutVideoStream(video_streams, extension) ==
    video_streams = <<>> /\ extension # ".exr"

\* lines 659-718: what follows the loop over the video streams
VideoMetadataAfterScan(inst, cfg, repre, metadata, scan, fps, frame_start, frame_end, is_review) ==
    LET duration == (frame_end - frame_start) + 1
        labelled == LabelledMetadata(cfg, metadata, <<
                        <<"fps", fps>>,
                        <<"frame_start", <<frame_start>> >>,
                        <<"frame_end", <<frame_end>> >>,
                        <<"duration", <<duration>> >>,
                        <<"width", scan.stream_width>>,
                        <<"height", scan.stream_height>>,
                        <<"fps", fps>>,
                        <<"codec", scan.codec_label>> >>)
    IN  DictSet(labelled, "ftr_meta",
                IF ~is_review
                THEN JsonDumps(NonReviewFtrMeta(fps, scan.stream_width,
                                                scan.stream_height))
                ELSE JsonDumps(ReviewFtrMeta(fps, scan.frame_out, duration)))

\* fps = stream_fps or repre_fps or instance_fps
EffectiveFps(inst, repre, stream_fps) ==
    PyOr(stream_fps,
         PyOr(repre.fps,
              IF inst.fps # NoneNum THEN inst.fps ELSE inst.context_fps))

\* the frame range is the representation's only when it declares both ends
DeclaresFrameRange(repre) ==
    repre.frameStartFtrack # NoneNum /\ repre.frameEndFtrack # NoneNum

VideoStreams(streams) ==
    SelectIn(streams, {stream \in Range(streams) :
                          stream.codec_type = "video"})

VideoMetadataOfStreams(inst, cfg, repre, extension, video_streams, scan, is_review) ==
    IF SkipsWithoutVideoStream(video_streams, extension)
    THEN VersionMetadata(cfg)
    ELSE VideoMetadataAfterScan(
            inst, cfg, repre, VersionMetadata(cfg), scan,
            EffectiveFps(inst, repre, scan.stream_fps),
            IF DeclaresFrameRange(repre) THEN repre.frameStartFtrack[1]
            ELSE inst.frameStart,
            IF DeclaresFrameRange(repre) THEN repre.frameEndFtrack[1]
            ELSE inst.frameEnd,
            is_review)

PrepareVideoComponentMetadata(inst, cfg, repre, component_path, is_review) ==
    VideoMetadataOfStreams(
        inst, cfg, repre, component_path[2],
        VideoStreams(GetFfprobeStreams(repre, component_path)),
        ScanVideoStreams(
            VideoStreams(GetFfprobeStreams(repre, component_path))),
        is_review)

PrepareImageComponentMetadata(repre, component_path) ==
    LET declared == Truthy(repre.width) /\ Truthy(repre.height)
        streams == GetFfprobeStreams(repre, component_path)
        Sized(i) == streams[i].width # NoneNum /\ streams[i].height # NoneNum
        found == \E i \in 1..Len(streams) : Sized(i)
        first == CHOOSE i \in 1..Len(streams) :
                    Sized(i) /\ \A j \in 1..(i - 1) : ~Sized(j)
        width == IF declared THEN repre.width
                 ELSE IF found THEN streams[first].width ELSE repre.width
        height == IF declared THEN repre.height
                  ELSE IF found THEN streams[first].height ELSE repre.height
    IN  IF Truthy(width) /\ Truthy(height)
        THEN <<<<"ftr_meta", JsonDumps(<<<<"width", width[1]>>,
                                         <<"height", height[1]>>,
                                         <<"format", "image">> >>)>> >>
        ELSE <<>>

PrepareComponentMetadata(inst, cfg, repre, component_path, is_review) ==
    IF IsRepreVideo(repre)
    THEN PrepareVideoComponentMetadata(inst, cfg, repre, component_path,
                                       is_review)
    ELSE IF IsRepreImage(repre)
    THEN PrepareImageComponentMetadata(repre, component_path)
    ELSE <<>>

----------------------------------------------------------------------------
(* Helpers of process() *)

UNMANAGED_LOCATION == "ftrack.unmanaged"

SERVER_LOCATION == "ftrack.server"

Tags(repre) == repre.tags

\* Variant: the check of the representations is missing
SkipsNoInstance(inst) == FALSE

\* if not instance_repres: return
SkipsInstance(inst) == inst.representations = <<>>

\* Variant: the check of the version is missing
VersionNeverMissing(inst) == FALSE

\* if instance_version is None: raise ValueError
VersionMissing(inst) == inst.version = NoneNum

\* base_component_item
BaseComponentItem(inst) ==
    [asset_name |-> inst.productName,
     version |-> inst.version,
     component_overwrite |-> FALSE,
     thumbnail |-> FALSE,
     component_name |-> <<>>,
     metadata |-> <<>>,
     component_path |-> NoPath,
     component_location_name |-> None]

\* Variant: the review test comes before the thumbnail test
BucketReviewFirst(repre) ==
    IF "publish_on_farm" \in Tags(repre) THEN "farm"
    ELSE IF "ftrackreview" \in Tags(repre)
            /\ GetPublishReprePath(repre, FALSE) # NoPath THEN "review"
    ELSE IF repre.thumbnail \/ "thumbnail" \in Tags(repre) THEN "thumbnail"
    ELSE "other"

\* The bucket a representation is put in by the filtering loop
Bucket(repre) ==
    IF "publish_on_farm" \in Tags(repre) THEN "farm"
    ELSE IF repre.thumbnail \/ "thumbnail" \in Tags(repre) THEN "thumbnail"
    ELSE IF "ftrackreview" \in Tags(repre)
            /\ GetPublishReprePath(repre, FALSE) # NoPath THEN "review"
    ELSE "other"

InBucket(repres, bucket) ==
    SelectIn(repres, {repre \in Range(repres) : Bucket(repre) = bucket})

\* Variant: the review's outputName is looked up in the thumbnail's tags
SyncedByThumbnailTags(reviews, thumbs) ==
    LET Synced(review, thumb) ==
            /\ review.outputName # None
            /\ \/ (thumb.outputName # None
                   /\ thumb.outputName = review.outputName)
               \/ review.outputName \in Tags(thumb)
        Inner(review) ==
            LET F[j \in 0..Len(thumbs)] ==
                    IF j = 0 THEN <<>>
                    ELSE IF Synced(review, thumbs[j])
                    THEN Append(F[j - 1], thumbs[j].outputName)
                    ELSE F[j - 1]
            IN  F[Len(thumbs)]
        G[i \in 0..Len(reviews)] ==
            IF i = 0 THEN <<>> ELSE G[i - 1] \o Inner(reviews[i])
    IN  G[Len(reviews)]

\* synced_multiple_output_names: one entry per (review, thumbnail) pair
SyncedMultipleOutputNames(reviews, thumbs) ==
    LET Synced(review, thumb) ==
            /\ review.outputName # None
            /\ \/ (thumb.outputName # None
                   /\ thumb.outputName = review.outputName)
               \/ thumb.outputName \in Tags(review)
        Inner(review) ==
            LET F[j \in 0..Len(thumbs)] ==
                    IF j = 0 THEN <<>>
                    ELSE IF Synced(review, thumbs[j])
                    THEN Append(F[j - 1], thumbs[j].outputName)
                    ELSE F[j - 1]
            IN  F[Len(thumbs)]
        G[i \in 0..Len(reviews)] ==
            IF i = 0 THEN <<>> ELSE G[i - 1] \o Inner(reviews[i])
    IN  G[Len(reviews)]

\* Variant: the list is not filtered, the loop alone skips the images
FilterReviewsKeepsAll(reviews, has_movie) == reviews

\* review_representations after the movie priority filter
FilterReviews(reviews, has_movie) ==
    SelectIn(reviews, {repre \in Range(reviews) :
                          ~has_movie \/ IsRepreVideo(repre)})

\* Variant: no fallback to the first binding when none matches
GetMatchingThumbnailItemNoFallback(review, items, are_multiple_synced) ==
    LET Hit(item) == \/ item.sync_key = review.outputName
                     \/ item.sync_key \in Tags(review)
        Scan[i \in 1..(Len(items) + 1)] ==
            IF i > Len(items) THEN 0
            ELSE IF Hit(items[i]) THEN i ELSE Scan[i + 1]
    IN  IF items = <<>> THEN 0
        ELSE IF ~are_multiple_synced THEN 1
        ELSE Scan[1]

\* _get_matching_thumbnail_item: position of the binding, 0 for None
GetMatchingThumbnailItem(review, items, are_multiple_synced) ==
    LET Hit(item) == \/ item.sync_key = review.outputName
                     \/ item.sync_key \in Tags(review)
        Scan[i \in 1..(Len(items) + 1)] ==
            IF i > Len(items) THEN 1
            ELSE IF Hit(items[i]) THEN i ELSE Scan[i + 1]
    IN  IF items = <<>> THEN 0
        ELSE IF ~are_multiple_synced THEN 1
        ELSE Scan[1]

\* Variant: the name is never suppressed
MakeExtendedComponentNameAlways(cfg, component_item, repre, iteration_index) ==
    component_item.asset_name \o <<"_", repre.name>>

\* Variant: the name is suppressed at index 0 whatever the flag
MakeExtendedComponentNameByIndex(cfg, component_item, repre, iteration_index) ==
    IF iteration_index = 0
    THEN <<>>
    ELSE component_item.asset_name \o <<"_", repre.name>>

\* _make_extended_component_name: <<>> for None
MakeExtendedComponentName(cfg, component_item, repre, iteration_index) ==
    IF cfg.keep_first_product_name_for_review /\ iteration_index = 0
    THEN <<>>
    ELSE component_item.asset_name \o <<"_", repre.name>>

\* Variant: the "_src" suffix is not added
CreateSrcComponentKeepsName(inst, cfg, repre, component_item, location) ==
    [component_item EXCEPT
        !.thumbnail = FALSE,
        !.component_location_name = location,
        !.metadata = PrepareComponentMetadata(
                        inst, cfg, repre, component_item.component_path,
                        FALSE)]

\* _create_src_component, on the copy it is given
CreateSrcComponent(inst, cfg, repre, component_item, location) ==
    [component_item EXCEPT
        !.thumbnail = FALSE,
        !.component_location_name = location,
        !.component_name = @ \o <<"_src">>,
        !.metadata = PrepareComponentMetadata(
                        inst, cfg, repre, component_item.component_path,
                        FALSE)]

\* Variant: the flag is not looked at
ExtendsOtherItemWhateverFlag(cfg, multiple, extended) ==
    multiple /\ extended # <<>>

\* lines 383-387: the item of an other representation takes the extended name
ExtendsOtherItem(cfg, multiple, extended) ==
    /\ multiple
    /\ ~cfg.keep_first_product_name_for_review
    /\ extended # <<>>

\* copy.deepcopy(heap[ref]): the new heap and the reference of the copy
DeepCopy(h, ref) == [heap |-> Append(h, h[ref]), ref |-> Len(h) + 1]

\* a new object holding `item`
Alloc(h, item) == [heap |-> Append(h, item), ref |-> Len(h) + 1]

\* Variant: the item itself is appended, not a copy
AppendAlias(st, ref, what) ==
    IF ref = 0 THEN st
    ELSE [heap |-> st.heap,
          list |-> Append(st.list, ref),
          log |-> Append(st.log, what)]

\* component_list.append(copy.deepcopy(item)) of the review loop
AppendCopy(st, ref, what) ==
    IF ref = 0 THEN st
    ELSE LET c == DeepCopy(st.heap, ref)
         IN  [heap |-> c.heap,
              list |-> Append(st.list, c.ref),
              log |-> Append(st.log, what)]

\* item["asset_data"]["name"] = name, in place
Rename(h, ref, name) ==
    IF ref = 0 THEN h ELSE [h EXCEPT ![ref].asset_name = name]

----------------------------------------------------------------------------
(* Inputs *)

GoodStream ==
    [codec_type |-> "video", codec_long_name |-> <<"H.264">>,
     codec |-> <<>>, pix_fmt |-> "yuv420p",
     width |-> <<1920>>, height |-> <<1080>>,
     r_frame_rate |-> "25/1", duration |-> <<2>>]

AudioStream ==
    [codec_type |-> "audio", codec_long_name |-> <<"AAC">>,
     codec |-> <<>>, pix_fmt |-> None,
     width |-> NoneNum, height |-> NoneNum,
     r_frame_rate |-> "0/0", duration |-> <<2>>]

ImageStream ==
    [codec_type |-> "video", codec_long_name |-> <<"MJPEG">>,
     codec |-> <<>>, pix_fmt |-> None,
     width |-> <<300>>, height |-> <<200>>,
     r_frame_rate |-> None, duration |-> NoneNum]

Repre(name, ext, tags, thumbnail, outputName, staged, published) ==
    [name |-> name, ext |-> ext, tags |-> tags, thumbnail |-> thumbnail,
     outputName |-> outputName,
     staging_path |-> IF staged THEN <<name, DotExt(ext), "staging">>
                      ELSE NoPath,
     published_path |-> IF published THEN <<name, DotExt(ext), "published">>
                        ELSE NoPath,
     probe_fails |-> FALSE,
     streams |-> IF DotExt(ext) \in VIDEO_EXTENSIONS
                 THEN <<AudioStream, GoodStream>> ELSE <<ImageStream>>,
     width |-> NoneNum, height |-> NoneNum, fps |-> NoneNum,
     frameStartFtrack |-> NoneNum, frameEndFtrack |-> NoneNum]

\* The representations instances are made of
ReprePool ==
    << Repre("thumb_gone", "jpg", {"thumbnail"}, FALSE, "main", FALSE, FALSE),
       Repre("h264", "mp4", {"ftrackreview"}, FALSE, "main", TRUE, TRUE),
       [Repre("thumb", "jpg", {"thumbnail"}, FALSE, "main", TRUE, TRUE)
             EXCEPT !.width = <<1920>>, !.height = <<1080>>],
       Repre("abc", "abc", {}, FALSE, None, TRUE, TRUE),
       [Repre("still", "jpg", {"ftrackreview", "alt"}, FALSE, "main", TRUE,
              TRUE)
             EXCEPT !.width = <<1920>>, !.height = <<1080>>],
       Repre("thumb_alt", "png", {"ftrackreview"}, TRUE, "alt", TRUE, FALSE),
       [Repre("prores", "mov", {"ftrackreview", "delete"}, FALSE, "alt",
              TRUE, FALSE) EXCEPT !.probe_fails = TRUE],
       Repre("farm", "mov", {"ftrackreview", "publish_on_farm"}, FALSE,
             "main", TRUE, TRUE),
       Repre("thumb_tmp", "jpg", {"thumbnail", "delete"}, FALSE, None,
             TRUE, FALSE),
       Repre("preview", "mp4", {"ftrackreview", "alt"}, FALSE, None, TRUE,
             TRUE),
       Repre("lost", "mov", {"ftrackreview"}, FALSE, "main", FALSE, FALSE),
       Repre("ass", "ass", {}, FALSE, None, TRUE, FALSE),
       Repre("obj", "obj", {}, FALSE, None, FALSE, TRUE) >>

\* The members of ReprePool at the positions S, in pool order
InPoolOrder(S) ==
    LET F[i \in 0..Len(ReprePool)] ==
            IF i = 0 THEN <<>>
            ELSE IF i \in S THEN Append(F[i - 1], ReprePool[i])
            ELSE F[i - 1]
    IN  F[Len(ReprePool)]

Reverse(s) == [i \in 1..Len(s) |-> s[Len(s) + 1 - i]]

\* Lists of at most MaxRepres representations, in pool order or reversed
RepreLists ==
    LET Chosen == {S \in SUBSET (1..Len(ReprePool)) :
                     Cardinality(S) <= MaxRepres}
    IN  {InPoolOrder(S) : S \in Chosen}
        \cup {Reverse(InPoolOrder(S)) : S \in Chosen}

Instances ==
    [representations : RepreLists,
     version : {NoneNum, <<3>>},
     productName : {<<"renderMain">>},
     fps : {NoneNum},
     context_fps : {<<25>>},
     frameStart : {1001},
     frameEnd : {1010}]

Settings ==
    [keep_first_product_name_for_review : BOOLEAN,
     upload_reviewable_with_origin_name : BOOLEAN,
     additional_metadata_keys : {{"duration", "fps", "codec"}}]

NoCall == [op |-> "none"]

Init ==
    /\ instance \in Instances
    /\ settings \in Settings
    /\ pc = "start"
    /\ heap = <<>>
    /\ review_representations = <<>>
    /\ thumbnail_representations = <<>>
    /\ other_representations = <<>>
    /\ has_movie_review = FALSE
    /\ multiple_synced_thumbnails = FALSE
    /\ multiple_reviewable = FALSE
    /\ component_list = <<>>
    /\ thumbnail_data_items = <<>>
    /\ thumbnail_item = 0
    /\ extended_asset_name = <<>>
    /\ index = 0
    /\ ftrackComponentsList = [present |-> FALSE, list |-> <<>>]
    /\ raised = None
    /\ emitted = <<>>
    /\ matched = <<>>
    /\ call = NoCall

----------------------------------------------------------------------------
(* process() *)

\* reference of base_component_item
BASE == 1

assembly == <<heap, review_representations, thumbnail_representations,
              other_representations, has_movie_review,
              multiple_synced_thumbnails, multiple_reviewable,
              component_list, thumbnail_data_items, thumbnail_item, extended_asset_name,
              index, emitted, matched>>

\* lines 76-81: no representations, the instance is skipped
SkipInstance ==
    /\ pc = "start"
    /\ SkipsInstance(instance)
    /\ pc' = "done"
    /\ UNCHANGED <<instance, settings, assembly, ftrackComponentsList,
                   raised, call>>

\* lines 83-85: the version is not set
RaiseVersionNotSet ==
    /\ pc = "start"
    /\ ~SkipsInstance(instance)
    /\ VersionMissing(instance)
    /\ raised' = "ValueError"
    /\ pc' = "done"
    /\ UNCHANGED <<instance, settings, assembly, ftrackComponentsList, call>>

\* lines 87-205: base item, buckets, multi-sync flag, empty lists
Prepare ==
    /\ pc = "start"
    /\ ~SkipsInstance(instance)
    /\ ~VersionMissing(instance)
    /\ heap' = <<BaseComponentItem(instance)>>
    /\ review_representations' = InBucket(instance.representations, "review")
    /\ thumbnail_representations' =
            InBucket(instance.representations, "thumbnail")
    /\ other_representations' = InBucket(instance.representations, "other")
    /\ has_movie_review' =
            \E r \in Range(review_representations') : IsRepreVideo(r)
    /\ multiple_synced_thumbnails' =
            (Len(SyncedMultipleOutputNames(review_representations',
                                           thumbnail_representations')) > 1)
    /\ component_list' = <<>>
    /\ thumbnail_data_items' = <<>>
    /\ thumbnail_item' = 0
    /\ index' = 1
    /\ pc' = "thumbnails"
    /\ UNCHANGED <<instance, settings, multiple_reviewable,
                   extended_asset_name, emitted, matched,
                   ftrackComponentsList, raised, call>>

fixed == <<instance, settings, ftrackComponentsList, raised, call>>

\* lines 209-262: one thumbnail representation
CreateThumbnail ==
    /\ pc = "thumbnails"
    /\ index <= Len(thumbnail_representations)
    /\ LET repre == thumbnail_representations[index]
           repre_path == GetPublishReprePath(repre, FALSE)
           item == [heap[BASE] EXCEPT
                       !.component_path = repre_path,
                       !.component_name =
                           IF review_representations # <<>>
                           THEN <<"thumbnail">>
                           ELSE <<"ftrackreview-image">>,
                       !.metadata =
                           PrepareImageComponentMetadata(repre, repre_path),
                       !.thumbnail = TRUE,
                       !.component_location_name = SERVER_LOCATION]
           new == Alloc(heap, item)
           kept == "delete" \notin Tags(repre)
           src == Alloc(new.heap,
                        CreateSrcComponent(instance, settings, repre, item,
                                           UNMANAGED_LOCATION))
       IN  IF repre_path = NoPath
           THEN UNCHANGED <<heap, component_list, thumbnail_data_items,
                            thumbnail_item, emitted>>
           ELSE /\ heap' = IF kept THEN src.heap ELSE new.heap
                /\ component_list' =
                        IF kept THEN Append(component_list, src.ref)
                        ELSE component_list
                /\ emitted' =
                        IF kept
                        THEN Append(emitted, [kind |-> "thumbnail_src",
                                              repre |-> repre.name,
                                              review |-> None])
                        ELSE emitted
                /\ thumbnail_data_items' =
                        Append(thumbnail_data_items,
                               [sync_key |-> repre.outputName,
                                representation |-> repre,
                                item |-> new.ref,
                                src_component |-> IF kept THEN src.ref
                                                  ELSE 0])
                /\ thumbnail_item' = new.ref
    /\ index' = index + 1
    /\ UNCHANGED <<pc, review_representations, thumbnail_representations,
                   other_representations, has_movie_review,
                   multiple_synced_thumbnails, multiple_reviewable,
                   extended_asset_name, matched, fixed>>

\* lines 264-274: movie priority filter, before the review loop
FilterReviewRepresentations ==
    /\ pc = "thumbnails"
    /\ index > Len(thumbnail_representations)
    /\ review_representations' =
            FilterReviews(review_representations, has_movie_review)
    /\ multiple_reviewable' = (Len(review_representations') > 1)
    /\ extended_asset_name' = <<>>
    /\ index' = 1
    /\ pc' = "reviews"
    /\ UNCHANGED <<heap, thumbnail_representations, other_representations,
                   has_movie_review, multiple_synced_thumbnails,
                   component_list, thumbnail_data_items, thumbnail_item,
                   emitted, matched, fixed>>

\* lines 305-325: rename the review item and the bound thumbnail items in
\* place, then append copies of the bound items
RenameAndAppendSynced(st, review_ref, item_ref, src_ref, thumb_repre, repre, extended, renames) ==
    AppendCopy(
        AppendCopy(
            [st EXCEPT !.heap =
                IF renames
                THEN Rename(Rename(Rename(@, review_ref, extended),
                                   item_ref, extended),
                            src_ref, extended)
                ELSE @],
            item_ref,
            [kind |-> "thumbnail", repre |-> thumb_repre,
             review |-> repre.name]),
        src_ref,
        [kind |-> "thumbnail_src", repre |-> thumb_repre,
         review |-> repre.name])

\* lines 327-348: the review item filled in
ReviewItem(inst, cfg, repre, repre_path, copy) ==
    [copy EXCEPT
        !.thumbnail = IF IsRepreVideo(repre) THEN @ ELSE TRUE,
        !.component_path = repre_path,
        !.component_name =
            IF IsRepreVideo(repre) THEN <<"ftrackreview-mp4">>
            ELSE <<"ftrackreview-image">>,
        !.metadata =
            IF IsRepreVideo(repre)
            THEN PrepareVideoComponentMetadata(inst, cfg, repre, repre_path,
                                               TRUE)
            ELSE PrepareImageComponentMetadata(repre, repre_path),
        !.component_location_name = SERVER_LOCATION]

\* lines 341-369: the review's shadow, the review item, the origin-named copy
AppendReview(st, cfg, repre, review_ref, item, src_item, repre_path) ==
    LET kept == "delete" \notin Tags(repre)
        origin == cfg.upload_reviewable_with_origin_name
        src_ref == Len(st.heap) + 1
        origin_ref == IF kept THEN src_ref + 1 ELSE src_ref
    IN  [heap |-> [st.heap EXCEPT ![review_ref] = item]
                  \o (IF kept THEN <<src_item>> ELSE <<>>)
                  \o (IF origin
                      THEN <<[item EXCEPT
                                !.component_name = <<repre_path[1]>>]>>
                      ELSE <<>>),
         list |-> st.list
                  \o (IF kept THEN <<src_ref>> ELSE <<>>)
                  \o <<review_ref>>
                  \o (IF origin THEN <<origin_ref>> ELSE <<>>),
         log |-> st.log
                 \o (IF kept
                     THEN <<[kind |-> "review_src", repre |-> repre.name,
                             review |-> repre.name]>>
                     ELSE <<>>)
                 \o <<[kind |-> "review", repre |-> repre.name,
                       review |-> repre.name]>>
                 \o (IF origin
                     THEN <<[kind |-> "origin", repre |-> repre.name,
                             review |-> repre.name]>>
                     ELSE <<>>)]

\* lines 282-369 for one review, given the binding and the extended name
ReviewComponents(inst, cfg, repre, items, sync, extended, renames, repre_path, h, list, log) ==
    LET review_ref == Len(h) + 1
        synced == RenameAndAppendSynced(
                    [heap |-> DeepCopy(h, BASE).heap, list |-> list,
                     log |-> log],
                    review_ref,
                    IF sync = 0 THEN 0 ELSE items[sync].item,
                    IF sync = 0 THEN 0 ELSE items[sync].src_component,
                    IF sync = 0 THEN None
                    ELSE items[sync].representation.name,
                    repre, extended, renames)
    IN  AppendReview(
            synced, cfg, repre, review_ref,
            ReviewItem(inst, cfg, repre, repre_path,
                       synced.heap[review_ref]),
            CreateSrcComponent(
                inst, cfg, repre,
                ReviewItem(inst, cfg, repre, repre_path,
                           synced.heap[review_ref]),
                UNMANAGED_LOCATION),
            repre_path)

\* lines 275-369: one review representation (enumerate index = index - 1)
CreateReview ==
    /\ pc = "reviews"
    /\ index <= Len(review_representations)
    /\ LET repre == review_representations[index]
           sync == GetMatchingThumbnailItem(repre, thumbnail_data_items,
                                            multiple_synced_thumbnails)
           extended == MakeExtendedComponentName(settings, heap[BASE], repre,
                                                 index - 1)
           st == ReviewComponents(
                    instance, settings, repre,
                    thumbnail_data_items, sync, extended,
                    multiple_reviewable /\ extended # <<>>,
                    GetPublishReprePath(repre, FALSE),
                    heap, component_list, emitted)
       IN  IF ~IsRepreVideo(repre) /\ has_movie_review
           THEN UNCHANGED <<heap, component_list, emitted, matched,
                            extended_asset_name>>
           ELSE /\ heap' = st.heap
                /\ component_list' = st.list
                /\ emitted' = st.log
                /\ extended_asset_name' = extended
                /\ matched' = Append(matched,
                                     [review |-> repre.name,
                                      index |-> index - 1,
                                      binding |-> sync,
                                      extended |-> extended,
                                      renamed |-> multiple_reviewable
                                                  /\ extended # <<>>])
    /\ index' = index + 1
    /\ UNCHANGED <<pc, review_representations, thumbnail_representations,
                   other_representations, has_movie_review,
                   multiple_synced_thumbnails, multiple_reviewable,
                   thumbnail_data_items, thumbnail_item, fixed>>

\* lines 371-372: the thumbnail alone when there is no review
AppendLoneThumbnail ==
    /\ pc = "reviews"
    /\ index > Len(review_representations)
    /\ IF review_representations = <<>> /\ thumbnail_item # 0
       THEN /\ component_list' = Append(component_list, thumbnail_item)
            /\ emitted' =
                 Append(emitted,
                        [kind |-> "thumbnail",
                         repre |-> thumbnail_data_items[
                                     Len(thumbnail_data_items)
                                   ].representation.name,
                         review |-> None])
       ELSE UNCHANGED <<component_list, emitted>>
    /\ index' = 1
    /\ pc' = "others"
    /\ UNCHANGED <<heap, review_representations, thumbnail_representations,
                   other_representations, has_movie_review,
                   multiple_synced_thumbnails, multiple_reviewable,
                   thumbnail_data_items, thumbnail_item, extended_asset_name,
                   matched, fixed>>

\* lines 375-401: one other representation
CreateOther ==
    /\ pc = "others"
    /\ index <= Len(other_representations)
    /\ LET repre == other_representations[index]
           published_path == GetPublishReprePath(repre, TRUE)
           extends == ExtendsOtherItem(settings, multiple_reviewable,
                                       extended_asset_name)
           item == [heap[BASE] EXCEPT
                       !.asset_name =
                           IF extends THEN extended_asset_name ELSE @,
                       !.component_path = published_path,
                       !.component_name = <<repre.name>>,
                       !.metadata =
                           PrepareComponentMetadata(instance, settings, repre,
                                                    published_path, FALSE),
                       !.component_location_name = UNMANAGED_LOCATION]
           new == Alloc(heap, item)
       IN  IF published_path = NoPath
           THEN UNCHANGED <<heap, component_list, emitted>>
           ELSE /\ heap' = new.heap
                /\ component_list' = Append(component_list, new.ref)
                /\ emitted' = Append(emitted, [kind |-> "other",
                                               repre |-> repre.name,
                                               review |-> None])
    /\ index' = index + 1
    /\ UNCHANGED <<pc, review_representations, thumbnail_representations,
                   other_representations, has_movie_review,
                   multiple_synced_thumbnails, multiple_reviewable,
                   thumbnail_data_items, thumbnail_item, extended_asset_name,
                   matched, fixed>>

\* line 414: instance.data["ftrackComponentsList"] = component_list
StoreComponentsList ==
    /\ pc = "others"
    /\ index > Len(other_representations)
    /\ ftrackComponentsList' = [present |-> TRUE, list |-> component_list]
    /\ pc' = "done"
    /\ UNCHANGED <<instance, settings, assembly, raised, call>>

Next ==
    \/ SkipInstance
    \/ RaiseVersionNotSet
    \/ Prepare
    \/ CreateThumbnail
    \/ FilterReviewRepresentations
    \/ CreateReview
    \/ AppendLoneThumbnail
    \/ CreateOther
    \/ StoreComponentsList

Spec == Init /\ [][Next]_vars

\* The component items of the output list, in order
Output == [i \in 1..Len(component_list) |-> heap[component_list[i]]]

----------------------------------------------------------------------------
(* The metadata helpers on their own: one call per step *)

StreamLists ==
    { <<>>,
      <<AudioStream>>,
      <<ImageStream>>,
      <<AudioStream, GoodStream>>,
      <<[GoodStream EXCEPT !.r_frame_rate = "bad"], GoodStream>>,
      <<[GoodStream EXCEPT !.r_frame_rate = "bad", !.codec_long_name = <<>>,
                           !.width = <<0>>]>>,
      <<[GoodStream EXCEPT !.r_frame_rate = "0/0", !.pix_fmt = None,
                           !.codec_long_name = <<>>, !.codec = <<"h264">>]>> }

MetaRepres ==
    [name : {"clip"},
     ext : {"mov", "jpg", "abc"},
     tags : {{"ftrackreview"}},
     thumbnail : {FALSE},
     outputName : {None},
     staging_path : {<<"clip", ".mov", "staging">>,
                     <<"clip", ".exr", "staging">>},
     published_path : {NoPath},
     probe_fails : BOOLEAN,
     streams : StreamLists,
     width : {NoneNum, <<640>>},
     height : {<<480>>},
     fps : {NoneNum, <<24>>},
     frameStartFtrack : {NoneNum, <<1>>},
     frameEndFtrack : {<<5>>}]

MetaInstances ==
    [representations : {<<>>},
     version : {<<3>>},
     productName : {<<"renderMain">>},
     fps : {NoneNum, <<30>>},
     context_fps : {<<25>>},
     frameStart : {1001, 0},
     frameEnd : {1010}]

MetaSettings ==
    [keep_first_product_name_for_review : {TRUE},
     upload_reviewable_with_origin_name : {FALSE},
     additional_metadata_keys :
        {{}, {"duration", "fps", "codec"},
         {"ayon_ftrack_version", "ayon_launcher_version", "frame_start",
          "frame_end", "duration", "width", "height", "fps", "codec"}}]

MetaInit ==
    /\ instance \in MetaInstances
    /\ settings \in MetaSettings
    /\ pc = "metadata"
    /\ heap = <<>>
    /\ review_representations = <<>>
    /\ thumbnail_representations = <<>>
    /\ other_representations = <<>>
    /\ has_movie_review = FALSE
    /\ multiple_synced_thumbnails = FALSE
    /\ multiple_reviewable = FALSE
    /\ component_list = <<>>
    /\ thumbnail_data_items = <<>>
    /\ thumbnail_item = 0
    /\ extended_asset_name = <<>>
    /\ index = 0
    /\ ftrackComponentsList = [present |-> FALSE, list |-> <<>>]
    /\ raised = None
    /\ emitted = <<>>
    /\ matched = <<>>
    /\ call = NoCall

MetaCall(op, repre, is_review, result) ==
    [op |-> op, repre |-> repre,
     component_path |-> GetPublishReprePath(repre, FALSE),
     is_review |-> is_review, result |-> result]

\* _prepare_video_component_metadata(instance, repre, path, is_review)
CallPrepareVideo ==
    /\ pc = "metadata"
    /\ \E repre \in MetaRepres, is_review \in BOOLEAN :
        /\ IsRepreVideo(repre)
        /\ call' = MetaCall("video", repre, is_review,
                            PrepareVideoComponentMetadata(
                                instance, settings, repre,
                                GetPublishReprePath(repre, FALSE),
                                is_review))
    /\ pc' = "returned"
    /\ UNCHANGED <<instance, settings, assembly, ftrackComponentsList,
                   raised>>

\* _prepare_image_component_metadata(repre, path)
CallPrepareImage ==
    /\ pc = "metadata"
    /\ \E repre \in MetaRepres :
        /\ IsRepreImage(repre)
        /\ call' = MetaCall("image", repre, FALSE,
                            PrepareImageComponentMetadata(
                                repre, GetPublishReprePath(repre, FALSE)))
    /\ pc' = "returned"
    /\ UNCHANGED <<instance, settings, assembly, ftrackComponentsList,
                   raised>>

\* _prepare_component_metadata(instance, repre, path, is_review)
CallPrepareComponent ==
    /\ pc = "metadata"
    /\ \E repre \in MetaRepres, is_review \in BOOLEAN :
        call' = MetaCall("component", repre, is_review,
                         PrepareComponentMetadata(
                            instance, settings, repre,
                            GetPublishReprePath(repre, FALSE), is_review))
    /\ pc' = "returned"
    /\ UNCHANGED <<instance, settings, assembly, ftrackComponentsList,
                   raised>>

MetaNext ==
    \/ CallPrepareVideo
    \/ CallPrepareImage
    \/ CallPrepareComponent

MetaSpec == MetaInit /\ [][MetaNext]_vars

----------------------------------------------------------------------------
(* Vocabulary of the properties *)

Finished == pc = "done" /\ ftrackComponentsList.present

RepreNamed(name) ==
    CHOOSE r \in Range(instance.representations) : r.name = name

Resolves(repre) == GetPublishReprePath(repre, FALSE) # NoPath

OutputNames == [i \in 1..Len(component_list) |-> Output[i].component_name]

KeepsOriginalName(item) == item.asset_name = instance.productName

ExtendedNameOf(name) == instance.productName \o <<"_", name>>

\* positions of the output list emitted for review `name` with a kind in K
EntriesFor(name, K) ==
    {i \in 1..Len(emitted) :
        emitted[i].review = name /\ emitted[i].kind \in K}

ReviewSet == {"review", "thumbnail", "thumbnail_src"}

\* the structured payload of a metadata map has key k
PayloadHas(metadata, k) ==
    /\ DictHas(metadata, "ftr_meta")
    /\ DictHas(DictGet(metadata, "ftr_meta").members, k)

PayloadGet(metadata, k) == DictGet(DictGet(metadata, "ftr_meta").members, k)

----------------------------------------------------------------------------
(* C1 *)

C1_Scenario ==
    /\ Len(instance.representations) = 2
    /\ instance.version # NoneNum
    /\ settings.keep_first_product_name_for_review
    /\ \E v, t \in Range(instance.representations) :
        /\ Bucket(v) = "review" /\ IsRepreVideo(v)
        /\ v.outputName = "main" /\ "delete" \notin Tags(v)
        /\ Bucket(t) = "thumbnail" /\ Resolves(t)
        /\ t.outputName = "main" /\ "delete" \notin Tags(t)

----------------------------------------------------------------------------
(* C2 *)

ShadowsOf(name) ==
    {i \in 1..Len(emitted) :
        emitted[i].kind = "thumbnail_src" /\ emitted[i].repre = name}

\* C2 as stated: every thumbnail representation that is not tagged "delete"
\* and resolves has exactly one "_src" shadow in the output list, next to its
\* primary item, and the shadow's payload has no frameIn / frameOut.
C2_OneShadowPerThumbnail ==
    Finished =>
        \A t \in Range(instance.representations) :
            (Bucket(t) = "thumbnail" /\ Resolves(t)
             /\ "delete" \notin Tags(t)) =>
                /\ Cardinality(ShadowsOf(t.name)) = 1
                /\ \A i \in ShadowsOf(t.name) :
                    /\ \E j \in {i - 1, i + 1} \cap 1..Len(emitted) :
                        /\ emitted[j].kind = "thumbnail"
                        /\ emitted[j].repre = t.name
                    /\ ~PayloadHas(Output[i].metadata, "frameIn")
                    /\ ~PayloadHas(Output[i].metadata, "frameOut")

----------------------------------------------------------------------------
(* C3 *)

\* C3: when a review is renamed, the review item, the thumbnail item and the
\* thumbnail "_src" shadow appended for that review all carry that review's
\* extended name, now and after every later step, also when another review
\* is bound to the same thumbnail.
C3_RenamePropagates ==
    \A k \in 1..Len(matched) :
        (multiple_reviewable
         /\ ~(settings.keep_first_product_name_for_review
              /\ matched[k].index = 0)) =>
            \A i \in EntriesFor(matched[k].review, ReviewSet) :
                Output[i].asset_name = ExtendedNameOf(matched[k].review)

C3_Witness ==
    /\ pc = "done"
    /\ \E k, l \in 1..Len(matched) :
        /\ k < l
        /\ matched[k].binding = matched[l].binding
        /\ matched[k].binding # 0
        /\ matched[k].renamed /\ matched[l].renamed
        /\ EntriesFor(matched[k].review, {"thumbnail_src"}) # {}
        /\ EntriesFor(matched[l].review, {"thumbnail_src"}) # {}

----------------------------------------------------------------------------
(* C4 *)

\* C4 as stated: once an item is in the output list, no later step changes
\* the entry or any field of the item it refers to.
C4_EmittedItemsNeverChange ==
    [][\A i \in 1..Len(component_list) :
          /\ i <= Len(component_list')
          /\ component_list'[i] = component_list[i]
          /\ heap'[component_list[i]] = heap[component_list[i]]]_vars

----------------------------------------------------------------------------
(* C5 *)

\* the video reviews of the instance, in input order
VideoReviews ==
    SelectIn(instance.representations,
             {r \in Range(instance.representations) :
                Bucket(r) = "review" /\ IsRepreVideo(r)})

\* C5: with a video review in the instance, no output entry is built from an
\* image review, and the k-th review processed is the k-th video review, at
\* index k - 1.
C5_MoviePriority ==
    has_movie_review =>
        /\ \A i \in 1..Len(emitted) :
              Bucket(RepreNamed(emitted[i].repre)) = "review"
                  => IsRepreVideo(RepreNamed(emitted[i].repre))
        /\ Len(matched) <= Len(VideoReviews)
        /\ \A k \in 1..Len(matched) :
              /\ matched[k].review = VideoReviews[k].name
              /\ matched[k].index = k - 1

C5_Witness ==
    /\ pc = "done"
    /\ has_movie_review
    /\ Len(matched) = 2
    /\ \E i, j \in 1..Len(instance.representations) :
        /\ i < j
        /\ Bucket(instance.representations[i]) = "review"
        /\ ~IsRepreVideo(instance.representations[i])
        /\ instance.representations[j].name = matched[1].review

----------------------------------------------------------------------------
(* C6 *)

\* the bindings whose sync_key is the review's outputName or one of its tags
SyncHits(review) ==
    {i \in 1..Len(thumbnail_data_items) :
        \/ thumbnail_data_items[i].sync_key = review.outputName
        \/ thumbnail_data_items[i].sync_key \in Tags(review)}

\* C6: the binding chosen for a review is none exactly when there is no
\* binding; the first binding when multi-sync is off; with multi-sync on the
\* first binding that hits, and the first binding when none hits.
C6_ThumbnailMatcher ==
    \A k \in 1..Len(matched) :
        LET review == RepreNamed(matched[k].review)
            chosen == matched[k].binding
        IN  /\ (chosen = 0) <=> (thumbnail_data_items = <<>>)
            /\ chosen \in 0..Len(thumbnail_data_items)
            /\ (thumbnail_data_items # <<>>
                /\ ~multiple_synced_thumbnails) => chosen = 1
            /\ (multiple_synced_thumbnails /\ SyncHits(review) # {}) =>
                    /\ chosen \in SyncHits(review)
                    /\ \A h \in SyncHits(review) : chosen <= h
            /\ (thumbnail_data_items # <<>> /\ multiple_synced_thumbnails
                /\ SyncHits(review) = {}) => chosen = 1

C6_Witness ==
    /\ pc = "done"
    /\ multiple_synced_thumbnails
    /\ \E k, l \in 1..Len(matched) :
        /\ SyncHits(RepreNamed(matched[k].review)) = {}
        /\ matched[k].binding = 1
        /\ SyncHits(RepreNamed(matched[l].review)) # {}

----------------------------------------------------------------------------
(* C7 *)

C7_Scenario ==
    /\ Len(review_representations) = 2
    /\ Len(thumbnail_data_items) = 2
    /\ review_representations[1].outputName # None
    /\ review_representations[2].outputName # None
    /\ review_representations[1].outputName
          # review_representations[2].outputName
    /\ \A k \in 1..2 :
          /\ Len(matched) >= k
          /\ matched[k].binding # 0
          /\ thumbnail_data_items[matched[k].binding].sync_key
                = review_representations[k].outputName
    /\ matched[1].binding # matched[2].binding

SetNamed(k, name) ==
    /\ EntriesFor(review_representations[k].name, {"review"}) # {}
    /\ EntriesFor(review_representations[k].name, {"thumbnail"}) # {}
    /\ \A i \in EntriesFor(review_representations[k].name, ReviewSet) :
          Output[i].asset_name = name

\* C7 as stated: with keep_first_product_name_for_review off, the second
\* review's set is renamed and the first review's set keeps the original
\* asset name.
C7_FirstSetKeepsName ==
    (pc = "done" /\ C7_Scenario
     /\ ~settings.keep_first_product_name_for_review) =>
        /\ SetNamed(2, ExtendedNameOf(review_representations[2].name))
        /\ SetNamed(1, instance.productName)

\* C7 amended: the second review's set is renamed to <asset>_<repr_name>;
\* the first review's set keeps the original asset name only when
\* keep_first_product_name_for_review is on, and with the flag off it is
\* renamed to <asset>_<first repr_name>.
C7_FirstSetFollowsFlag ==
    (pc = "done" /\ C7_Scenario) =>
        /\ SetNamed(2, ExtendedNameOf(review_representations[2].name))
        /\ SetNamed(1, IF settings.keep_first_product_name_for_review
                       THEN instance.productName
                       ELSE ExtendedNameOf(review_representations[1].name))

C7_Witness ==
    /\ pc = "done"
    /\ C7_Scenario
    /\ ~settings.keep_first_product_name_for_review
    /\ EntriesFor(review_representations[2].name, {"thumbnail_src"}) # {}

----------------------------------------------------------------------------
(* C8 *)

C8_Case ==
    /\ pc = "returned"
    /\ call.op = "video"
    /\ call.is_review
    /\ call.repre.probe_fails
    /\ ~DeclaresFrameRange(call.repre)
    /\ instance.frameStart = 1001
    /\ instance.frameEnd = 1010
    /\ "duration" \in settings.additional_metadata_keys

FallbackPayload(metadata) ==
    /\ DictHas(metadata, "Duration")
    /\ DictGet(metadata, "Duration") = 10
    /\ ~DictHas(metadata, "Codec")
    /\ PayloadHas(metadata, "frameIn")
    /\ PayloadGet(metadata, "frameIn") = 0
    /\ PayloadHas(metadata, "frameOut")
    /\ PayloadGet(metadata, "frameOut") = 10

\* C8 as stated: after a failed probe the metadata holds duration = 10, no
\* fps, no codec, and the payload frameIn = 0, frameOut = 10.
C8_FallbackAfterFailedProbe ==
    C8_Case =>
        /\ FallbackPayload(call.result)
        /\ ~DictHas(call.result, "FPS")

\* C8 amended: after a failed probe of a file whose extension is not ".exr"
\* the metadata holds no duration, no fps, no codec and no structured
\* payload; duration = 10 and the payload frameIn = 0, frameOut = 10 are
\* produced only for a file with the extension ".exr".
C8_EarlyReturnAfterFailedProbe ==
    C8_Case =>
        IF call.component_path[2] # ".exr"
        THEN /\ ~DictHas(call.result, "Duration")
             /\ ~DictHas(call.result, "FPS")
             /\ ~DictHas(call.result, "Codec")
             /\ ~DictHas(call.result, "ftr_meta")
        ELSE FallbackPayload(call.result)

C8_Witness ==
    /\ C8_Case
    /\ call.component_path[2] = ".mov"
    /\ call.result = <<>>

----------------------------------------------------------------------------
(* C9 *)

\* C9 as stated: without representations the output is the empty list and
\* nothing but the missing-version error is raised.
C9_EmptyListStored ==
    (pc = "done" /\ instance.representations = <<>>) =>
        /\ ftrackComponentsList.present
        /\ ftrackComponentsList.list = <<>>
        /\ raised \in {None, "ValueError"}

\* C9 amended: without representations the instance is skipped: no component
\* is built, ftrackComponentsList is left unset, and no error is raised, not
\* even the missing-version error.
C9_InstanceSkipped ==
    instance.representations = <<>> =>
        /\ ~ftrackComponentsList.present
        /\ component_list = <<>>
        /\ heap = <<>>
        /\ raised = None
        /\ pc \in {"start", "done"}

C9_Witness ==
    /\ pc = "done"
    /\ instance.representations = <<>>
    /\ instance.version = NoneNum
    /\ raised = None

----------------------------------------------------------------------------
(* C10 *)

\* C10 as stated: without a version the assembly ends with an error and no
\* component list, whatever the representations.
C10_AlwaysRaises ==
    (pc = "done" /\ instance.version = NoneNum) =>
        /\ raised = "ValueError"
        /\ ~ftrackComponentsList.present

\* C10 amended: without a version and with at least one representation the
\* assembly ends with the error before any component is built and no
\* component list is stored; with no representation it returns without an
\* error.
C10_RaisesUnlessSkipped ==
    instance.version = NoneNum =>
        /\ ~ftrackComponentsList.present
        /\ heap = <<>>
        /\ component_list = <<>>
        /\ pc \in {"start", "done"}
        /\ pc = "done" =>
              (raised = "ValueError" <=> instance.representations # <<>>)
        /\ raised \in {None, "ValueError"}

C10_Witness ==
    /\ pc = "done"
    /\ instance.version = NoneNum
    /\ Len(instance.representations) > 1
    /\ raised = "ValueError"

----------------------------------------------------------------------------
(* C11 *)

\* how many members of the three buckets are the representation r
TimesClassified(r) ==
    Cardinality({k \in 1..Len(thumbnail_representations) :
                    thumbnail_representations[k] = r})
    + Cardinality({k \in 1..Len(review_representations) :
                    review_representations[k] = r})
    + Cardinality({k \in 1..Len(other_representations) :
                    other_representations[k] = r})

\* position of a representation in the input list
InputPosition(r) ==
    CHOOSE i \in 1..Len(instance.representations) :
        instance.representations[i] = r

\* the bucket holds members of the input only, in the input's order
KeepsInputOrder(bucket) ==
    /\ \A k \in 1..Len(bucket) : bucket[k] \in Range(instance.representations)
    /\ \A k, l \in 1..Len(bucket) :
          k < l => InputPosition(bucket[k]) < InputPosition(bucket[l])

PassesThumbnailTest(r) == r.thumbnail \/ "thumbnail" \in r.tags

PassesReviewTest(r) ==
    "ftrackreview" \in r.tags /\ (r.staging_path # <<>> \/
                                   r.published_path # <<>>)

\* C11: once the representations are classified, a "publish_on_farm"
\* representation is in no bucket and every other one in exactly one; it is
\* in the thumbnail bucket when it passes the thumbnail test, else in the
\* review bucket when it passes the review test, else in the other bucket;
\* and each bucket keeps the input order.
C11_Classifier ==
    pc = "thumbnails" =>
        /\ \A r \in Range(instance.representations) :
              IF "publish_on_farm" \in r.tags
              THEN TimesClassified(r) = 0
              ELSE /\ TimesClassified(r) = 1
                   /\ r \in Range(
                        IF PassesThumbnailTest(r)
                        THEN thumbnail_representations
                        ELSE IF PassesReviewTest(r)
                        THEN review_representations
                        ELSE other_representations)
        /\ KeepsInputOrder(thumbnail_representations)
        /\ KeepsInputOrder(review_representations)
        /\ KeepsInputOrder(other_representations)

C11_Witness ==
    /\ pc = "thumbnails"
    /\ \E r \in Range(thumbnail_representations) :
          PassesThumbnailTest(r) /\ PassesReviewTest(r)
    /\ \E r \in Range(instance.representations) :
          "publish_on_farm" \in r.tags
    /\ Len(review_representations) >= 2
    /\ instance.representations[1].name = "farm"

----------------------------------------------------------------------------
(* C12 *)

IsShadow(kind) == kind \in {"thumbnail_src", "review_src"}

\* the path a representation resolves to: the published file when there is
\* one, else the staged file, else nothing
ResolvedPath(r) ==
    IF r.published_path # <<>> THEN r.published_path ELSE r.staging_path

\* C12: every entry of the output list that is not a "_src" shadow has a
\* non-empty component_path, the resolved path of the representation it was
\* built from; and no entry at all is built from a representation whose path
\* does not resolve.
C12_PathResolved ==
    /\ Len(emitted) = Len(component_list)
    /\ \A i \in 1..Len(emitted) :
          LET r == RepreNamed(emitted[i].repre)
          IN  /\ ResolvedPath(r) # <<>>
              /\ ~IsShadow(emitted[i].kind) =>
                    /\ Output[i].component_path # <<>>
                    /\ Output[i].component_path = ResolvedPath(r)

C12_Witness ==
    /\ pc = "done"
    /\ {emitted[i].kind : i \in 1..Len(emitted)}
          = {"thumbnail_src", "thumbnail", "review_src", "review", "other"}
    /\ \E r \in Range(thumbnail_representations) : ResolvedPath(r) = <<>>
    /\ \E i \in 1..Len(emitted) :
          /\ emitted[i].kind = "review"
          /\ Output[i].component_path[3] = "published"
          /\ RepreNamed(emitted[i].repre).staging_path # <<>>

----------------------------------------------------------------------------
(* C13 *)

Classified == pc \in {"thumbnails", "reviews", "others"} \/ Finished

\* positions in the input of the representations classified as reviews and
\* as thumbnails
ReviewPositions ==
    {i \in 1..Len(instance.representations) :
        LET r == instance.representations[i]
        IN  /\ "publish_on_farm" \notin r.tags
            /\ ~PassesThumbnailTest(r)
            /\ PassesReviewTest(r)}

ThumbnailPositions ==
    {j \in 1..Len(instance.representations) :
        LET t == instance.representations[j]
        IN  "publish_on_farm" \notin t.tags /\ PassesThumbnailTest(t)}

\* the pairs counted by the statement: the review's outputName is the
\* thumbnail's outputName or one of the thumbnail's tags
PairsByThumbnailTags ==
    {p \in ReviewPositions \X ThumbnailPositions :
        LET r == instance.representations[p[1]]
            t == instance.representations[p[2]]
        IN  /\ r.outputName # None
            /\ t.outputName # None
            /\ (r.outputName = t.outputName \/ r.outputName \in t.tags)}

\* the pairs counted by the code: the thumbnail's outputName is the review's
\* outputName or one of the review's tags
PairsByReviewTags ==
    {p \in ReviewPositions \X ThumbnailPositions :
        LET r == instance.representations[p[1]]
            t == instance.representations[p[2]]
        IN  /\ r.outputName # None
            /\ t.outputName # None
            /\ (t.outputName = r.outputName \/ t.outputName \in r.tags)}

\* C13 as stated: multi-sync mode is on exactly when more than one (review,
\* thumbnail) pair has a review outputName that is the thumbnail's outputName
\* or one of the thumbnail's tags.
C13_CountsThumbnailTags ==
    Classified =>
        (multiple_synced_thumbnails <=> Cardinality(PairsByThumbnailTags) > 1)

\* C13 amended: multi-sync mode is on exactly when more than one (review,
\* thumbnail) pair has a review with an outputName and a thumbnail whose
\* outputName is the review's outputName or one of the review's tags; a
\* thumbnail without an outputName is in no such pair.
C13_CountsReviewTags ==
    Classified =>
        (multiple_synced_thumbnails <=> Cardinality(PairsByReviewTags) > 1)

C13_Witness ==
    /\ Classified
    /\ multiple_synced_thumbnails
    /\ Cardinality(PairsByReviewTags) = 2
    /\ Cardinality(PairsByThumbnailTags) = 1
    /\ \E j \in ThumbnailPositions :
          instance.representations[j].outputName = None

----------------------------------------------------------------------------
(* C14 *)

\* the asset name of the review item emitted for the k-th review processed
ReviewItemName(k) ==
    LET at == CHOOSE i \in EntriesFor(matched[k].review, {"review"}) : TRUE
    IN  Output[at].asset_name

\* C14: the k-th review processed is the survivor at index k - 1; its
\* extended name is null exactly when keep_first_product_name_for_review is
\* set and the index is 0, and is otherwise the original asset name, "_" and
\* the representation name; its item carries the extended name when the name
\* is not null and more than one review survives, and the original asset
\* name otherwise.
C14_ExtendedName ==
    pc \in {"reviews", "others", "done"} =>
        \A k \in 1..Len(matched) :
            LET keeps == settings.keep_first_product_name_for_review
                         /\ k - 1 = 0
            IN  /\ matched[k].index = k - 1
                /\ matched[k].review = review_representations[k].name
                /\ (matched[k].extended = <<>>) <=> keeps
                /\ ~keeps => matched[k].extended
                                = instance.productName
                                  \o <<"_", matched[k].review>>
                /\ Cardinality(EntriesFor(matched[k].review, {"review"})) = 1
                /\ ReviewItemName(k) =
                      IF Len(review_representations) > 1 /\ ~keeps
                      THEN matched[k].extended
                      ELSE instance.productName

C14_Witness ==
    /\ pc = "done"
    /\ settings.keep_first_product_name_for_review
    /\ Len(matched) = 2
    /\ matched[1].extended = <<>>
    /\ ReviewItemName(1) = instance.productName
    /\ ReviewItemName(2) = <<"renderMain", "_", matched[2].review>>
    /\ \E r \in Range(instance.representations) :
          /\ Bucket(r) = "review"
          /\ r \notin Range(review_representations)

----------------------------------------------------------------------------
(* C15 *)

\* the video streams of the probed file of the call
ProbedVideoStreams ==
    IF call.repre.probe_fails THEN <<>> ELSE VideoStreams(call.repre.streams)

C15_Case ==
    /\ pc = "returned"
    /\ call.op \in {"video", "component"}
    /\ IsRepreVideo(call.repre)
    /\ ProbedVideoStreams # <<>>

\* the streams whose frame rate and duration can be read
Measurable ==
    {i \in 1..Len(ProbedVideoStreams) :
        /\ ProbedVideoStreams[i].r_frame_rate # None
        /\ ProbedVideoStreams[i].duration # NoneNum
        /\ ConvertFfprobeFpsToFloat(ProbedVideoStreams[i].r_frame_rate)
              # <<>>}

FirstMeasurable == CHOOSE i \in Measurable : \A j \in Measurable : i <= j

\* the streams, up to the first measurable one, that have a width and a height
Sized ==
    {i \in 1..Len(ProbedVideoStreams) :
        /\ Measurable # {} => i <= FirstMeasurable
        /\ Truthy(ProbedVideoStreams[i].width)
        /\ Truthy(ProbedVideoStreams[i].height)}

\* width and height are known: the first measurable stream has them, or, when
\* no stream is measurable, some stream has them
SizeKnown == IF Measurable # {} THEN FirstMeasurable \in Sized ELSE Sized # {}

KnownSize ==
    ProbedVideoStreams[CHOOSE i \in Sized : \A j \in Sized : j <= i]

\* frame_out of the first measurable stream, <<>> when there is none or
\* when it is 0
MeasuredFrameOut ==
    IF Measurable = {} THEN <<>>
    ELSE LET s == ProbedVideoStreams[FirstMeasurable]
             out == s.duration[1]
                    * ConvertFfprobeFpsToFloat(s.r_frame_rate)[1]
         IN  IF out = 0 THEN <<>> ELSE <<out>>

C15_Fps ==
    EffectiveFps(instance, call.repre,
                 IF Measurable = {} THEN NoneNum
                 ELSE ConvertFfprobeFpsToFloat(
                        ProbedVideoStreams[FirstMeasurable].r_frame_rate))

DurationFrames ==
    IF DeclaresFrameRange(call.repre)
    THEN call.repre.frameEndFtrack[1] - call.repre.frameStartFtrack[1] + 1
    ELSE instance.frameEnd - instance.frameStart + 1

PayloadKeys(metadata) ==
    {DictGet(metadata, "ftr_meta").members[i][1] :
        i \in 1..Len(DictGet(metadata, "ftr_meta").members)}

\* C15: for a video file with a video stream, the payload of a review
\* component has exactly frameIn = 0, frameOut and frameRate, frameOut being
\* the frame_out of the stream or, when there is none (or it is 0), the
\* duration in frames; the payload of a component that is not a review has
\* frameRate exactly when the fps is known, width and height exactly when
\* both are known, and nothing else.
C15_StructuredPayload ==
    C15_Case =>
        /\ DictHas(call.result, "ftr_meta")
        /\ IF call.is_review
           THEN /\ PayloadKeys(call.result)
                      = {"frameIn", "frameOut", "frameRate"}
                /\ PayloadGet(call.result, "frameIn") = 0
                /\ PayloadGet(call.result, "frameOut") =
                      IF MeasuredFrameOut # <<>> THEN MeasuredFrameOut[1]
                      ELSE DurationFrames
                /\ PayloadGet(call.result, "frameRate") = C15_Fps[1]
           ELSE /\ PayloadKeys(call.result)
                      = (IF Truthy(C15_Fps) THEN {"frameRate"} ELSE {})
                        \cup (IF SizeKnown THEN {"width", "height"} ELSE {})
                /\ Truthy(C15_Fps) =>
                      PayloadGet(call.result, "frameRate") = C15_Fps[1]
                /\ SizeKnown =>
                      /\ PayloadGet(call.result, "width")
                            = KnownSize.width[1]
                      /\ PayloadGet(call.result, "height")
                            = KnownSize.height[1]

C15_Witness ==
    /\ C15_Case
    /\ call.is_review
    /\ Measurable # {}
    /\ FirstMeasurable = 2
    /\ SizeKnown
    /\ PayloadGet(call.result, "frameOut") = 50
    /\ DurationFrames = 10

----------------------------------------------------------------------------
(* C16 *)

\* positions of the output list built from other representations
OtherEntries == {i \in 1..Len(emitted) : emitted[i].kind = "other"}

\* C16: a component built from an other representation has the original
\* asset name, unless more than one review survives the filter and
\* keep_first_product_name_for_review is off: then it has the extended name
\* computed for the last surviving review, whichever other representation it
\* is built from.
C16_OtherItemName ==
    \A i \in OtherEntries :
        Output[i].asset_name =
            IF Len(review_representations) > 1
               /\ ~settings.keep_first_product_name_for_review
            THEN instance.productName
                 \o <<"_", review_representations[
                              Len(review_representations)].name>>
            ELSE instance.productName

C16_Witness ==
    /\ pc = "done"
    /\ Cardinality(OtherEntries) = 2
    /\ Len(review_representations) = 2
    /\ ~settings.keep_first_product_name_for_review
    /\ \A i \in OtherEntries :
          Output[i].asset_name = <<"renderMain", "_", matched[2].review>>

====
